---- MODULE Spec2Model ----
(***************************************************************************)
(* Temperature-controller core of openfactory-virtual-assets:              *)
(*   src/virtual_assets/temp_controller/src/pid.py              PIDController *)
(*   src/virtual_assets/temp_controller/src/plant.py            plant models  *)
(*   src/virtual_assets/temp_controller/src/autotune.py         IMC tuning    *)
(*   src/virtual_assets/temp_controller/src/temp_controller.py  main loop     *)
(*                                                                         *)
(* Python floats are modelled as exact rationals <<num, den>> (den > 0,    *)
(* lowest terms); IEEE rounding, NaN and infinities are not modelled.      *)
(* Python None and a not-yet-created attribute are the empty tuple.        *)
(***************************************************************************)
EXTENDS Integers, Sequences, FiniteSets, TLC

VARIABLES
    pid,               \* the PIDController object (all attributes of its __dict__)
    ret,               \* the last operation on the controller and what compute returned
    nCompute,          \* number of compute calls made (bounded)
    nUpdate,           \* number of parameter updates made (bounded)
    pc,                \* position of main() (temp_controller.py)
    cfg,               \* environment configuration read by main()
    plant,             \* the plant object
    control_output,    \* main(): control_output
    new_temp,          \* main(): new_temp
    now,               \* main(): now
    next_opcua_update, \* main(): next_opcua_update
    clock,             \* time.time()
    ctrl,              \* values of the OPC UA nodes of the controller tree
    subscription,      \* "none" | "active" | "deleted"
    monitored,         \* nodes whose subscribe_data_change succeeded
    exit_cause,        \* why main() ended, "none" while it runs
    hist               \* observations of the current loop iteration

vars == <<pid, ret, nCompute, nUpdate, pc, cfg, plant, control_output, new_temp,
          now, next_opcua_update, clock, ctrl, subscription, monitored,
          exit_cause, hist>>

-----------------------------------------------------------------------------
(* Bounds of the model *)

\* compute calls explored per behaviour of the controller object
MaxComputes == 2
\* parameter updates / mutator calls explored per behaviour
MaxUpdates == 2
\* loop iterations of main() explored per behaviour
MaxTicks == 3
\* parameter-channel events delivered while main() runs
MaxEvents == 1

-----------------------------------------------------------------------------
(* Exact rational arithmetic standing for Python float arithmetic *)

None == <<>>

Abs(n) == IF n < 0 THEN -n ELSE n

RECURSIVE GCD(_, _)
GCD(a, b) == IF b = 0 THEN a ELSE GCD(b, a % b)

\* the rational n/d in lowest terms with a positive denominator (d # 0)
Q(n, d) ==
    LET g == GCD(Abs(n), Abs(d))
        s == IF d < 0 THEN -1 ELSE 1
    IN  <<(s * n) \div g, Abs(d) \div g>>

R(n) == <<n, 1>>

RAdd(a, b) == Q(a[1] * b[2] + b[1] * a[2], a[2] * b[2])
RSub(a, b) == Q(a[1] * b[2] - b[1] * a[2], a[2] * b[2])
RMul(a, b) == Q(a[1] * b[1], a[2] * b[2])
\* a / b for b # 0 (Python raises ZeroDivisionError for b = 0: see the callers)
RDiv(a, b) == Q(a[1] * b[2], a[2] * b[1])
RNeg(a)    == <<-a[1], a[2]>>
RAbs(a)    == <<Abs(a[1]), a[2]>>
RLt(a, b)  == a[1] * b[2] < b[1] * a[2]
RLe(a, b)  == a[1] * b[2] <= b[1] * a[2]
\* Python max(a, b) and min(a, b): the first argument unless the second beats it
RMax(a, b) == IF RLt(a, b) THEN b ELSE a
RMin(a, b) == IF RLt(b, a) THEN b ELSE a

-----------------------------------------------------------------------------
(* pid.py: PIDController *)

\* __init__: the ten parameters, then integral = 0.0 and last_error = None.
\* _integral and _prev_error do not exist until reset() creates them.
PIDController(setpoint, kp, ki, kd, prop_enabled, integ_enabled, deriv_enabled, windup_limit, output_min, output_max) ==
    [ setpoint      |-> setpoint,
      kp            |-> kp,
      ki            |-> ki,
      kd            |-> kd,
      prop_enabled  |-> prop_enabled,
      integ_enabled |-> integ_enabled,
      deriv_enabled |-> deriv_enabled,
      windup_limit  |-> windup_limit,
      output_min    |-> output_min,
      output_max    |-> output_max,
      integral      |-> R(0),
      last_error    |-> None,
      _integral     |-> None,
      _prev_error   |-> None ]

\* the ten configuration attributes (everything but the controller memory)
ParamFields == {"setpoint", "kp", "ki", "kd", "prop_enabled", "integ_enabled",
                "deriv_enabled", "windup_limit", "output_min", "output_max"}

\* the property setters: each stores the value as given, without validation
SetAttr(p, field, val) == [p EXCEPT ![field] = val]

\* compute, line 157
ComputeError(p, measured) == RSub(p.setpoint, measured)

\* compute, line 159
PropTerm(p, error) == IF p.prop_enabled THEN RMul(p.kp, error) ELSE R(0)

\* mutant of IntegralAfter: a disabled integral path silently clears the accumulator
IntegralAfter_ClearsWhenDisabled(p, error, dt) ==
    IF p.integ_enabled
    THEN RMax(RMin(RAdd(p.integral, RMul(error, dt)), p.windup_limit),
              RNeg(p.windup_limit))
    ELSE R(0)

\* compute, lines 161-163: the accumulator after the call
IntegralAfter(p, error, dt) ==
    IF p.integ_enabled
    THEN RMax(RMin(RAdd(p.integral, RMul(error, dt)), p.windup_limit),
              RNeg(p.windup_limit))
    ELSE p.integral

\* compute, line 164
IntegTerm(p, integral) == IF p.integ_enabled THEN RMul(p.ki, integral) ELSE R(0)

\* compute, line 167: the derivative path is taken
DerivActive(p) == p.deriv_enabled /\ p.last_error # None

\* compute, lines 166-168 (dt # 0 when the derivative path is taken)
DerivTerm(p, error, dt) ==
    IF DerivActive(p)
    THEN RDiv(RMul(p.kd, RSub(error, p.last_error)), dt)
    ELSE R(0)

\* compute, line 171
Saturate(p, x) == RMax(p.output_min, RMin(p.output_max, x))

\* mutant of Compute: the error is remembered only while the derivative path
\* is enabled
Compute_ErrorKeptOnlyWithDerivative(p, measured, dt) ==
    LET error    == ComputeError(p, measured)
        Pterm    == PropTerm(p, error)
        integral == IntegralAfter(p, error, dt)
        Iterm    == IntegTerm(p, integral)
        raised   == DerivActive(p) /\ dt = R(0)
        Dterm    == IF raised THEN None ELSE DerivTerm(p, error, dt)
    IN  [ pid    |-> IF raised \/ ~p.deriv_enabled
                     THEN [p EXCEPT !.integral = integral]
                     ELSE [p EXCEPT !.integral = integral, !.last_error = error],
          raised |-> raised,
          error  |-> error,
          P      |-> Pterm,
          I      |-> Iterm,
          D      |-> Dterm,
          out    |-> IF raised THEN None
                     ELSE Saturate(p, RAdd(RAdd(Pterm, Iterm), Dterm)) ]

\* compute(measured, dt): the controller after the call and what the call
\* produced.  With the derivative path taken and dt = 0 line 168 raises
\* ZeroDivisionError: the accumulator is already written, last_error is not,
\* and nothing is returned.
Compute(p, measured, dt) ==
    LET error    == ComputeError(p, measured)
        Pterm    == PropTerm(p, error)
        integral == IntegralAfter(p, error, dt)
        Iterm    == IntegTerm(p, integral)
        raised   == DerivActive(p) /\ dt = R(0)
        Dterm    == IF raised THEN None ELSE DerivTerm(p, error, dt)
    IN  [ pid    |-> IF raised
                     THEN [p EXCEPT !.integral = integral]
                     ELSE [p EXCEPT !.integral = integral, !.last_error = error],
          raised |-> raised,
          error  |-> error,
          P      |-> Pterm,
          I      |-> Iterm,
          D      |-> Dterm,
          out    |-> IF raised THEN None
                     ELSE Saturate(p, RAdd(RAdd(Pterm, Iterm), Dterm)) ]

\* reset(), lines 181-182: assigns _integral and _prev_error
Reset(p) == [p EXCEPT !._integral = R(0), !._prev_error = R(0)]

\* mutant of SetOutputLimits: the two arguments are stored the other way round
SetOutputLimits_Swapped(p, output_min, output_max) ==
    SetAttr(SetAttr(p, "output_min", output_max), "output_max", output_min)

\* set_output_limits, lines 192-193
SetOutputLimits(p, output_min, output_max) ==
    SetAttr(SetAttr(p, "output_min", output_min), "output_max", output_max)

\* set_windup_limit, line 202
SetWindupLimit(p, limit) == SetAttr(p, "windup_limit", RAbs(limit))

-----------------------------------------------------------------------------
(* temp_controller.py: PIDSubscriptionHandler *)

\* the keys of ctrl the handler compares the node with, lines 84-102
HandlerNodes == {"setpoint", "kp", "ki", "kd", "prop_enabled", "integ_enabled",
                 "deriv_enabled", "windup", "output_min", "output_max"}

\* mutant of DatachangeNotification: a new integral gain also clears the
\* accumulator
DatachangeNotification_KiClearsIntegral(p, node, val) ==
    IF node = "ki" THEN [p EXCEPT !.ki = val, !.integral = R(0)]
    ELSE IF node = "windup" THEN SetAttr(p, "windup_limit", val)
    ELSE IF node \in HandlerNodes THEN SetAttr(p, node, val)
    ELSE p

\* datachange_notification(node, val, data): the if/elif chain; a node that
\* matches no branch changes nothing.  No setter raises, so the except
\* clause of line 104 is never entered.
DatachangeNotification(p, node, val) ==
    IF node = "setpoint" THEN SetAttr(p, "setpoint", val)
    ELSE IF node = "kp" THEN SetAttr(p, "kp", val)
    ELSE IF node = "ki" THEN SetAttr(p, "ki", val)
    ELSE IF node = "kd" THEN SetAttr(p, "kd", val)
    ELSE IF node = "prop_enabled" THEN SetAttr(p, "prop_enabled", val)
    ELSE IF node = "integ_enabled" THEN SetAttr(p, "integ_enabled", val)
    ELSE IF node = "deriv_enabled" THEN SetAttr(p, "deriv_enabled", val)
    ELSE IF node = "windup" THEN SetAttr(p, "windup_limit", val)
    ELSE IF node = "output_min" THEN SetAttr(p, "output_min", val)
    ELSE IF node = "output_max" THEN SetAttr(p, "output_max", val)
    ELSE p

-----------------------------------------------------------------------------
(* plant.py *)

\* FirstOrderPlant.__init__, lines 50-52
FirstOrderPlant(K, tau, x0) ==
    [ kind |-> "first_order", K |-> K, tau |-> tau, x |-> x0 ]

\* mutant of FirstOrderUpdate: the step is taken twice as long
FirstOrderUpdate_DoubleStep(pl, u, dt) ==
    LET dx == RMul(RDiv(RMul(R(2), dt), pl.tau), RAdd(RNeg(pl.x), RMul(pl.K, u)))
    IN  [pl EXCEPT !.x = RAdd(pl.x, dx)]

\* mutant of FirstOrderUpdate: the input enters without the gain K
FirstOrderUpdate_GainDropped(pl, u, dt) ==
    LET dx == RMul(RDiv(dt, pl.tau), RAdd(RNeg(pl.x), u))
    IN  [pl EXCEPT !.x = RAdd(pl.x, dx)]

\* FirstOrderPlant.update, lines 65-66: one forward-Euler step of x (tau # 0)
FirstOrderUpdate(pl, u, dt) ==
    LET dx == RMul(RDiv(dt, pl.tau), RAdd(RNeg(pl.x), RMul(pl.K, u)))
    IN  [pl EXCEPT !.x = RAdd(pl.x, dx)]

\* ThermalPlant.__init__, lines 111-113
ThermalPlant(initial_temp, ambient, tau, heater_gain) ==
    [ kind    |-> "pt1",
      K       |-> heater_gain,
      tau     |-> tau,
      x       |-> RSub(initial_temp, ambient),
      ambient |-> ambient,
      temp    |-> initial_temp ]

\* mutant of ThermalUpdate: temp is set to the deviation state, without ambient
ThermalUpdate_AmbientDropped(pl, u, dt) ==
    LET base == FirstOrderUpdate(pl, u, dt)
    IN  [base EXCEPT !.temp = base.x]

\* ThermalPlant.update, lines 126-127; the returned value is the new temp
ThermalUpdate(pl, u, dt) ==
    LET base == FirstOrderUpdate(pl, u, dt)
    IN  [base EXCEPT !.temp = RAdd(pl.ambient, base.x)]

\* TwoPT1ThermalPlant.__init__, lines 187-194
TwoPT1ThermalPlant(initial_temp, ambient, tau_p, K_p, tau_h, K_h) ==
    [ kind    |-> "two_pt1",
      temp    |-> initial_temp,
      ambient |-> ambient,
      tau_p   |-> tau_p,
      K_p     |-> K_p,
      tau_h   |-> tau_h,
      K_h     |-> K_h,
      heater  |-> R(0) ]

\* mutant of TwoPT1Update: both stages are integrated from the values before
\* the step (the plant stage sees the old heater output)
TwoPT1Update_StaleHeater(pl, u, dt) ==
    LET dQ_h   == RMul(RDiv(dt, pl.tau_h), RAdd(RNeg(pl.heater), RMul(pl.K_h, u)))
        heater == RAdd(pl.heater, dQ_h)
        dT     == RMul(RDiv(dt, pl.tau_p),
                       RAdd(RNeg(RSub(pl.temp, pl.ambient)), RMul(pl.K_p, pl.heater)))
    IN  [pl EXCEPT !.heater = heater, !.temp = RAdd(pl.temp, dT)]

\* TwoPT1ThermalPlant.update, lines 208-215; the returned value is the new temp
TwoPT1Update(pl, u, dt) ==
    LET dQ_h   == RMul(RDiv(dt, pl.tau_h), RAdd(RNeg(pl.heater), RMul(pl.K_h, u)))
        heater == RAdd(pl.heater, dQ_h)
        dT     == RMul(RDiv(dt, pl.tau_p),
                       RAdd(RNeg(RSub(pl.temp, pl.ambient)), RMul(pl.K_p, heater)))
    IN  [pl EXCEPT !.heater = heater, !.temp = RAdd(pl.temp, dT)]

\* plant.update(control_output, dt) of main(): dispatch on the plant's class
PlantUpdate(pl, u, dt) ==
    IF pl.kind = "pt1" THEN ThermalUpdate(pl, u, dt) ELSE TwoPT1Update(pl, u, dt)

-----------------------------------------------------------------------------
(* autotune.py *)

\* what a tuning function gives back: the gains, or ValueError raised
TuningError == [raised |-> TRUE, kp |-> None, ki |-> None, kd |-> None]

\* mutant of AutotunePiFromPlant: lam ignores the aggressiveness
AutotunePiFromPlant_LamIsTau(pl, aggressiveness) ==
    LET K   == pl.K
        tau == pl.tau
        lam == tau
    IN  IF RLe(K, R(0)) \/ RLe(tau, R(0))
        THEN TuningError
        ELSE [ raised |-> FALSE,
               kp     |-> RDiv(tau, RMul(K, lam)),
               ki     |-> RDiv(R(1), lam),
               kd     |-> R(0) ]

\* autotune_pi_from_plant, lines 94-107
AutotunePiFromPlant(pl, aggressiveness) ==
    LET K   == pl.K
        tau == pl.tau
        lam == RMul(tau, aggressiveness)
    IN  IF RLe(K, R(0)) \/ RLe(tau, R(0))
        THEN TuningError
        ELSE [ raised |-> FALSE,
               kp     |-> RDiv(tau, RMul(K, lam)),
               ki     |-> RDiv(R(1), lam),
               kd     |-> R(0) ]

\* mutant of AutotunePidFromTwoPt1: kd is the product of the time constants,
\* not divided by their sum
AutotunePidFromTwoPt1_KdProduct(pl, aggressiveness) ==
    LET K    == RMul(pl.K_h, pl.K_p)
        tau1 == pl.tau_h
        tau2 == pl.tau_p
        lam  == RMul(aggressiveness, RAdd(tau1, tau2))
    IN  IF RLe(K, R(0)) \/ RLe(tau1, R(0)) \/ RLe(tau2, R(0))
        THEN TuningError
        ELSE [ raised |-> FALSE,
               kp     |-> RDiv(RAdd(tau1, tau2), RMul(K, lam)),
               ki     |-> RDiv(R(1), lam),
               kd     |-> RMul(tau1, tau2) ]

\* mutant of AutotunePidFromTwoPt1: kp is taken from the plant time constant
\* alone instead of the sum of the two time constants
AutotunePidFromTwoPt1_KpFromTauP(pl, aggressiveness) ==
    LET K    == RMul(pl.K_h, pl.K_p)
        tau1 == pl.tau_h
        tau2 == pl.tau_p
        lam  == RMul(aggressiveness, RAdd(tau1, tau2))
    IN  IF RLe(K, R(0)) \/ RLe(tau1, R(0)) \/ RLe(tau2, R(0))
        THEN TuningError
        ELSE [ raised |-> FALSE,
               kp     |-> RDiv(tau2, RMul(K, lam)),
               ki     |-> RDiv(R(1), lam),
               kd     |-> RDiv(RMul(tau1, tau2), RAdd(tau1, tau2)) ]

\* autotune_pid_from_two_pt1, lines 134-149
AutotunePidFromTwoPt1(pl, aggressiveness) ==
    LET K    == RMul(pl.K_h, pl.K_p)
        tau1 == pl.tau_h
        tau2 == pl.tau_p
        lam  == RMul(aggressiveness, RAdd(tau1, tau2))
    IN  IF RLe(K, R(0)) \/ RLe(tau1, R(0)) \/ RLe(tau2, R(0))
        THEN TuningError
        ELSE [ raised |-> FALSE,
               kp     |-> RDiv(RAdd(tau1, tau2), RMul(K, lam)),
               ki     |-> RDiv(R(1), lam),
               kd     |-> RDiv(RMul(tau1, tau2), RAdd(tau1, tau2)) ]

-----------------------------------------------------------------------------
(* temperature_controller_setup.py and the environment of main() *)

\* create_temperature_controller: the initial values of the nodes main() uses
CreateTemperatureController ==
    [ temp          |-> R(20),
      output        |-> R(0),
      last_update   |-> None,
      setpoint      |-> R(25),
      kp            |-> R(1),
      ki            |-> Q(1, 10),
      kd            |-> R(0),
      prop_enabled  |-> TRUE,
      integ_enabled |-> TRUE,
      windup        |-> R(50),
      deriv_enabled |-> TRUE,
      output_min    |-> R(0),
      output_max    |-> R(100) ]

\* the keys of ctrl the handler never compares the node with
UnmatchedNodes == (DOMAIN CreateTemperatureController) \ HandlerNodes

\* main(), line 156: the simulation step is the literal 0.1
DT_SIM == Q(1, 10)

\* main(), lines 191 and 207: aggressiveness=1.0
Aggressiveness == R(1)

\* main(), line 267: the over-temperature margin 5.0
OverTempMargin == R(5)

\* environments main() is started in (os.getenv, lines 155-197): a single-lag
\* plant, a two-stage plant resting exactly on setpoint + 5, a single-lag
\* plant with a non-positive gain, and a two-stage plant with two negative gains
Configs ==
    { [ PLANT_TYPE |-> "pt1", PLANT_INITIAL_TEMPERATURE |-> R(22),
        AMBIENT_TEMPERATURE |-> R(20), PLANT_TAU |-> Q(1, 5), PLANT_K |-> R(1),
        PLANT_TAU_P |-> R(10), PLANT_K_P |-> Q(1, 2), PLANT_TAU_H |-> R(1),
        PLANT_K_H |-> R(100), UPDATE_INTERVAL |-> Q(1, 5), DT_SIM |-> Q(1, 5) ],
      [ PLANT_TYPE |-> "two_pt1", PLANT_INITIAL_TEMPERATURE |-> R(30),
        AMBIENT_TEMPERATURE |-> R(30), PLANT_TAU |-> R(10), PLANT_K |-> R(1),
        PLANT_TAU_P |-> Q(1, 5), PLANT_K_P |-> Q(1, 2), PLANT_TAU_H |-> Q(1, 10),
        PLANT_K_H |-> R(2), UPDATE_INTERVAL |-> Q(1, 10), DT_SIM |-> Q(1, 5) ],
      [ PLANT_TYPE |-> "pt1", PLANT_INITIAL_TEMPERATURE |-> R(22),
        AMBIENT_TEMPERATURE |-> R(20), PLANT_TAU |-> Q(1, 5), PLANT_K |-> R(0),
        PLANT_TAU_P |-> R(10), PLANT_K_P |-> Q(1, 2), PLANT_TAU_H |-> R(1),
        PLANT_K_H |-> R(100), UPDATE_INTERVAL |-> Q(1, 5), DT_SIM |-> Q(1, 5) ],
      [ PLANT_TYPE |-> "two_pt1", PLANT_INITIAL_TEMPERATURE |-> R(30),
        AMBIENT_TEMPERATURE |-> R(30), PLANT_TAU |-> R(10), PLANT_K |-> R(1),
        PLANT_TAU_P |-> Q(1, 5), PLANT_K_P |-> Q(-1, 2), PLANT_TAU_H |-> Q(1, 10),
        PLANT_K_H |-> R(-2), UPDATE_INTERVAL |-> Q(1, 10), DT_SIM |-> Q(1, 5) ] }

-----------------------------------------------------------------------------
(* The controller object under arbitrary call sequences (SpecPID) *)

\* values a numeric attribute is set to, and values measured
NumVals      == {R(-1), R(2)}
Measurements == {R(0), R(3)}
\* time steps passed to compute (the code accepts any, also 0 and negative)
Dts          == {R(-1), R(0), Q(1, 2)}

\* the value domain of a node: booleans for the enable flags, numbers otherwise
NodeVals(node) ==
    IF node \in {"prop_enabled", "integ_enabled", "deriv_enabled"}
    THEN BOOLEAN ELSE NumVals

\* controllers the behaviours start from: PIDController() with its defaults,
\* and one with every path enabled and tight limits
InitialControllers ==
    { PIDController(R(0), R(0), R(0), R(0), TRUE, TRUE, FALSE, R(100), R(0), R(100)),
      PIDController(R(2), R(1), R(1), R(1), TRUE, TRUE, TRUE, R(1), R(0), R(3)) }

\* what an operation other than compute leaves in ret; first says that no
\* compute call was made since construction or the last reset()
NoReturn(op, first) ==
    [ op |-> op, first |-> first, node |-> None, val |-> None, raised |-> FALSE,
      error |-> None, P |-> None, I |-> None, D |-> None, out |-> None ]

\* what a parameter-channel event leaves in ret: the event itself
EventReturn(node, val, first) ==
    [NoReturn("datachange", first) EXCEPT !.node = <<node>>, !.val = <<val>>]

\* what a mutator call leaves in ret: the tuple of its arguments
MutatorReturn(op, args, first) == [NoReturn(op, first) EXCEPT !.val = args]

\* what a compute call leaves in ret: its terms and its result; first says that
\* it was the first compute call since construction or the last reset()
ComputeReturn(c, first) ==
    [ op |-> "compute", first |-> first, node |-> None, val |-> None,
      raised |-> c.raised, error |-> c.error,
      P |-> c.P, I |-> c.I, D |-> c.D, out |-> c.out ]

\* the variables of main(), which the controller object alone does not touch
mainVars == <<pc, cfg, plant, control_output, new_temp, now, next_opcua_update,
              clock, ctrl, subscription, monitored, exit_cause, hist>>

InitPID ==
    /\ pid \in InitialControllers
    /\ ret = NoReturn("init", TRUE)
    /\ nCompute = 0
    /\ nUpdate = 0
    /\ pc = "object"
    /\ cfg = None
    /\ plant = None
    /\ control_output = None
    /\ new_temp = None
    /\ now = None
    /\ next_opcua_update = None
    /\ clock = None
    /\ ctrl = None
    /\ subscription = "none"
    /\ monitored = {}
    /\ exit_cause = "none"
    /\ hist = None

PidCompute ==
    /\ nCompute < MaxComputes
    /\ \E measured \in Measurements, dt \in Dts :
         LET c == Compute(pid, measured, dt)
         IN  /\ pid' = c.pid
             /\ ret' = ComputeReturn(c, ret.op # "compute" /\ ret.first)
    /\ nCompute' = nCompute + 1
    /\ UNCHANGED <<nUpdate, mainVars>>

PidReset ==
    /\ pid' = Reset(pid)
    /\ ret' = NoReturn("reset", TRUE)
    /\ UNCHANGED <<nCompute, nUpdate, mainVars>>

PidSetOutputLimits ==
    /\ nUpdate < MaxUpdates
    /\ \E a \in NumVals, b \in NumVals :
         /\ pid' = SetOutputLimits(pid, a, b)
         /\ ret' = MutatorReturn("set_output_limits", <<a, b>>,
                                 ret.op # "compute" /\ ret.first)
    /\ nUpdate' = nUpdate + 1
    /\ UNCHANGED <<nCompute, mainVars>>

PidSetWindupLimit ==
    /\ nUpdate < MaxUpdates
    /\ \E l \in NumVals :
         /\ pid' = SetWindupLimit(pid, l)
         /\ ret' = MutatorReturn("set_windup_limit", <<l>>,
                                 ret.op # "compute" /\ ret.first)
    /\ nUpdate' = nUpdate + 1
    /\ UNCHANGED <<nCompute, mainVars>>

\* a parameter-channel event reaching the handler
PidDatachange ==
    /\ nUpdate < MaxUpdates
    /\ \E node \in HandlerNodes :
         \E val \in NodeVals(node) :
             /\ pid' = DatachangeNotification(pid, node, val)
             /\ ret' = EventReturn(node, val, ret.op # "compute" /\ ret.first)
    /\ nUpdate' = nUpdate + 1
    /\ UNCHANGED <<nCompute, mainVars>>

NextPID ==
    \/ PidCompute
    \/ PidReset
    \/ PidSetOutputLimits
    \/ PidSetWindupLimit
    \/ PidDatachange

SpecPID == InitPID /\ [][NextPID]_vars

-----------------------------------------------------------------------------
(* autotune.py: the tuning functions called on arbitrary plants (SpecTune) *)

\* gains, time constants and aggressiveness factors the functions are called
\* with; the constructors of plant.py accept any number
TuneGains == {R(-1), R(0), Q(1, 2), R(2), R(100)}
TuneTaus  == {R(-1), R(0), R(1), R(10)}
TuneAggressiveness == {Q(1, 2), R(1)}

\* the plants handed to the tuning functions
TunePlants ==
    { ThermalPlant(R(22), R(20), tau, K) : tau \in TuneTaus, K \in TuneGains }
    \cup
    { TwoPT1ThermalPlant(R(22), R(20), tp[1], Kp[1], tp[2], Kp[2]) :
          tp \in TuneTaus \X TuneTaus, Kp \in TuneGains \X TuneGains }

\* what a tuning call leaves in ret: its argument and its outcome
TuneReturn(op, aggressiveness, t) ==
    [ op |-> op, aggressiveness |-> aggressiveness, raised |-> t.raised,
      kp |-> t.kp, ki |-> t.ki, kd |-> t.kd ]

InitTune ==
    /\ pc = "tune"
    /\ plant \in TunePlants
    /\ ret = NoReturn("init", TRUE)
    /\ pid = None
    /\ nCompute = 0
    /\ nUpdate = 0
    /\ cfg = None
    /\ control_output = None
    /\ new_temp = None
    /\ now = None
    /\ next_opcua_update = None
    /\ clock = None
    /\ ctrl = None
    /\ subscription = "none"
    /\ monitored = {}
    /\ exit_cause = "none"
    /\ hist = None

\* autotune_pi_from_plant(plant, aggressiveness) on a ThermalPlant
TunePi ==
    /\ pc = "tune"
    /\ plant.kind = "pt1"
    /\ \E a \in TuneAggressiveness :
         ret' = TuneReturn("autotune_pi_from_plant", a, AutotunePiFromPlant(plant, a))
    /\ pc' = "tuned"
    /\ UNCHANGED <<pid, nCompute, nUpdate, cfg, plant, control_output, new_temp,
                   now, next_opcua_update, clock, ctrl, subscription, monitored,
                   exit_cause, hist>>

\* autotune_pid_from_two_pt1(plant, aggressiveness) on a TwoPT1ThermalPlant
TunePid ==
    /\ pc = "tune"
    /\ plant.kind = "two_pt1"
    /\ \E a \in TuneAggressiveness :
         ret' = TuneReturn("autotune_pid_from_two_pt1", a,
                           AutotunePidFromTwoPt1(plant, a))
    /\ pc' = "tuned"
    /\ UNCHANGED <<pid, nCompute, nUpdate, cfg, plant, control_output, new_temp,
                   now, next_opcua_update, clock, ctrl, subscription, monitored,
                   exit_cause, hist>>

NextTune ==
    \/ TunePi
    \/ TunePid

SpecTune == InitTune /\ [][NextTune]_vars

-----------------------------------------------------------------------------
(* plant.py: the plant objects under arbitrary update calls (SpecPlant) *)

\* update calls made on one plant
MaxSteps == 2

\* inputs and time steps update is called with (the code accepts any dt, also
\* 0 and negative ones); 10 is the largest time constant below
PlantInputs == {R(0), R(1)}
PlantDts    == {R(-1), R(0), R(1), R(10)}

\* the plants the behaviours start from, each as its constructor leaves it:
\* the three classes with their default arguments, and others with tau > 0
InitialPlants ==
    { FirstOrderPlant(K, tau, x0) :
          K \in {R(1), R(2)}, tau \in {R(1), R(10)}, x0 \in {R(0), R(3)} }
    \cup
    { ThermalPlant(R(22), R(20), R(10), R(1)),
      ThermalPlant(R(18), R(20), R(1), R(2)),
      TwoPT1ThermalPlant(R(22), R(20), R(10), Q(1, 2), R(1), R(100)),
      TwoPT1ThermalPlant(R(20), R(20), R(1), R(1), R(10), R(2)) }

\* what an update call leaves in ret: its arguments, whether it raised, and
\* the value it returned
UpdateReturn(op, u, dt, value) ==
    [ op |-> op, u |-> u, dt |-> dt, raised |-> FALSE, value |-> value ]

\* the plant as constructed and the (u, dt) of the update calls made so far
PlantHist(pl, calls) == [ initial |-> pl, calls |-> calls ]

InitPlant ==
    /\ pc = "plant"
    /\ plant \in InitialPlants
    /\ ret = NoReturn("init", TRUE)
    /\ pid = None
    /\ nCompute = 0
    /\ nUpdate = 0
    /\ cfg = None
    /\ control_output = None
    /\ new_temp = None
    /\ now = None
    /\ next_opcua_update = None
    /\ clock = None
    /\ ctrl = None
    /\ subscription = "none"
    /\ monitored = {}
    /\ exit_cause = "none"
    /\ hist = PlantHist(plant, <<>>)

\* FirstOrderPlant.update(u, dt)
StepFirstOrder ==
    /\ plant.kind = "first_order"
    /\ nUpdate < MaxSteps
    /\ \E u \in PlantInputs, dt \in PlantDts :
         /\ plant' = FirstOrderUpdate(plant, u, dt)
         /\ ret' = UpdateReturn("FirstOrderPlant.update", u, dt, plant'.x)
         /\ hist' = PlantHist(hist.initial, Append(hist.calls, <<u, dt>>))
    /\ nUpdate' = nUpdate + 1
    /\ UNCHANGED <<pid, nCompute, pc, cfg, control_output, new_temp, now,
                   next_opcua_update, clock, ctrl, subscription, monitored,
                   exit_cause>>

\* ThermalPlant.update(control_output, dt)
StepThermal ==
    /\ plant.kind = "pt1"
    /\ nUpdate < MaxSteps
    /\ \E u \in PlantInputs, dt \in PlantDts :
         /\ plant' = ThermalUpdate(plant, u, dt)
         /\ ret' = UpdateReturn("ThermalPlant.update", u, dt, plant'.temp)
         /\ hist' = PlantHist(hist.initial, Append(hist.calls, <<u, dt>>))
    /\ nUpdate' = nUpdate + 1
    /\ UNCHANGED <<pid, nCompute, pc, cfg, control_output, new_temp, now,
                   next_opcua_update, clock, ctrl, subscription, monitored,
                   exit_cause>>

\* TwoPT1ThermalPlant.update(u, dt)
StepTwoPT1 ==
    /\ plant.kind = "two_pt1"
    /\ nUpdate < MaxSteps
    /\ \E u \in PlantInputs, dt \in PlantDts :
         /\ plant' = TwoPT1Update(plant, u, dt)
         /\ ret' = UpdateReturn("TwoPT1ThermalPlant.update", u, dt, plant'.temp)
         /\ hist' = PlantHist(hist.initial, Append(hist.calls, <<u, dt>>))
    /\ nUpdate' = nUpdate + 1
    /\ UNCHANGED <<pid, nCompute, pc, cfg, control_output, new_temp, now,
                   next_opcua_update, clock, ctrl, subscription, monitored,
                   exit_cause>>

NextPlant ==
    \/ StepFirstOrder
    \/ StepThermal
    \/ StepTwoPT1

SpecPlant == InitPlant /\ [][NextPlant]_vars

-----------------------------------------------------------------------------
(* temp_controller.py: main() (Spec) *)

\* how long asyncio.sleep(DT_SIM) takes: its period
SleepDelays == {DT_SIM}

\* how long the publish I/O of one iteration takes (taken at its first await):
\* no time, or longer than any configured UPDATE_INTERVAL
PublishDelays == {R(0), Q(3, 10)}

\* mutant of LoopAwaits: the top of the loop body counts as a suspension
\* point, as if the step of lines 253-262 yielded to the event loop
LoopAwaits_WithLoopTop ==
    {"loop_top", "write_temp", "write_output", "write_last_update", "trigger", "sleep"}

\* positions of main() at which it is suspended in an await inside the loop
LoopAwaits == {"write_temp", "write_output", "write_last_update", "trigger", "sleep"}

\* lines 174-208: the plant built from the environment
SelectPlant(c) ==
    IF c.PLANT_TYPE = "two_pt1"
    THEN TwoPT1ThermalPlant(c.PLANT_INITIAL_TEMPERATURE, c.AMBIENT_TEMPERATURE,
                            c.PLANT_TAU_P, c.PLANT_K_P, c.PLANT_TAU_H, c.PLANT_K_H)
    ELSE ThermalPlant(c.PLANT_INITIAL_TEMPERATURE, c.AMBIENT_TEMPERATURE,
                      c.PLANT_TAU, c.PLANT_K)

\* lines 191 and 207: the tuning function of the selected plant
Autotune(pl) ==
    IF pl.kind = "two_pt1"
    THEN AutotunePidFromTwoPt1(pl, Aggressiveness)
    ELSE AutotunePiFromPlant(pl, Aggressiveness)

\* mutant of WriteTuning: the derivative gain is not written to its node
WriteTuning_KdNotWritten(nodes, pl, t) ==
    [nodes EXCEPT !.deriv_enabled = (pl.kind = "two_pt1"),
                  !.prop_enabled  = TRUE,
                  !.integ_enabled = TRUE,
                  !.kp = t.kp, !.ki = t.ki]

\* lines 192, 208, 210-214: the nodes after main() wrote flags and gains
WriteTuning(nodes, pl, t) ==
    [nodes EXCEPT !.deriv_enabled = (pl.kind = "two_pt1"),
                  !.prop_enabled  = TRUE,
                  !.integ_enabled = TRUE,
                  !.kp = t.kp, !.ki = t.ki, !.kd = t.kd]

\* lines 216-227: the controller built from the node values
ReadController(nodes) ==
    PIDController(nodes.setpoint, nodes.kp, nodes.ki, nodes.kd,
                  nodes.prop_enabled, nodes.integ_enabled, nodes.deriv_enabled,
                  nodes.windup, nodes.output_min, nodes.output_max)

\* mutant of LoopBody: every iteration tunes again and computes with the
\* tuned gains
LoopBody_Retunes(pl, p, c_prev, dt) ==
    LET pl2 == PlantUpdate(pl, c_prev, dt)
        t   == Autotune(pl2)
        c   == Compute([p EXCEPT !.kp = t.kp, !.ki = t.ki, !.kd = t.kd],
                       pl2.temp, dt)
    IN  [ plant |-> pl2, new_temp |-> pl2.temp, c |-> c,
          u |-> c_prev, measured |-> pl2.temp ]

\* mutant of LoopBody: compute runs first, on the temperature of the previous
\* step, and its output is applied to the plant in the same iteration
LoopBody_NoDelay(pl, p, c_prev, dt) ==
    LET c   == Compute(p, pl.temp, dt)
        pl2 == PlantUpdate(pl, c.out, dt)
    IN  [ plant |-> pl2, new_temp |-> pl2.temp, c |-> c,
          u |-> c.out, measured |-> pl.temp ]

\* lines 256-259: one simulate-and-compute step; u and measured are the
\* arguments passed to plant.update and to compute
LoopBody(pl, p, c_prev, dt) ==
    LET pl2 == PlantUpdate(pl, c_prev, dt)
        c   == Compute(p, pl2.temp, dt)
    IN  [ plant |-> pl2, new_temp |-> pl2.temp, c |-> c,
          u |-> c_prev, measured |-> pl2.temp ]

\* line 262
ShouldPublish(t, deadline) == RLe(deadline, t)

\* mutant of OverTemp: the comparison is not strict
OverTemp_NonStrict(temp, setpoint) == RLe(RAdd(setpoint, OverTempMargin), temp)

\* line 267
OverTemp(temp, setpoint) == RLt(RAdd(setpoint, OverTempMargin), temp)

\* mutant of NextDeadline: the deadline counts from the time the publish ended
NextDeadline_FromClock(t, interval) == RAdd(clock, interval)

\* line 271
NextDeadline(t, interval) == RAdd(t, interval)

NoHist ==
    [ tick |-> 0, u |-> None, temp |-> None, measured |-> None, out |-> None,
      prev_out |-> None, deadline |-> None, publishing |-> FALSE, writes |-> 0,
      alarm |-> FALSE, alarms |-> 0, pub_now |-> None, prev_pub_now |-> None,
      setpoint |-> None ]

Init ==
    /\ pc = "start"
    /\ cfg \in Configs
    /\ ctrl = CreateTemperatureController
    /\ pid = None
    /\ ret = NoReturn("init", TRUE)
    /\ nCompute = 0
    /\ nUpdate = 0
    /\ plant = None
    /\ control_output = None
    /\ new_temp = None
    /\ now = None
    /\ next_opcua_update = None
    /\ clock = R(0)
    /\ subscription = "none"
    /\ monitored = {}
    /\ exit_cause = "none"
    /\ hist = NoHist

\* lines 152-229: plant selection, tuning, node writes, controller construction
MainStartup ==
    /\ pc = "start"
    /\ LET pl == SelectPlant(cfg)
           t  == Autotune(pl)
       IN  /\ plant' = pl
           /\ IF t.raised
              THEN /\ pc' = "done"
                   /\ exit_cause' = "tuning_error"
                   /\ UNCHANGED <<ctrl, pid, control_output>>
              ELSE /\ ctrl' = WriteTuning(ctrl, pl, t)
                   /\ pid' = ReadController(ctrl')
                   /\ control_output' = R(0)
                   /\ pc' = "subscribe"
                   /\ UNCHANGED exit_cause
    /\ UNCHANGED <<ret, nCompute, nUpdate, cfg, new_temp, now, next_opcua_update,
                   clock, subscription, monitored, hist>>

\* lines 232-245: the subscription is created; a node whose
\* subscribe_data_change raises is logged and left unmonitored
MainSubscribe ==
    /\ pc = "subscribe"
    /\ subscription' = "active"
    /\ monitored' \in {HandlerNodes, HandlerNodes \ {"kd"}}
    /\ pc' = "enter_server"
    /\ UNCHANGED <<pid, ret, nCompute, nUpdate, cfg, plant, control_output,
                   new_temp, now, next_opcua_update, clock, ctrl, exit_cause, hist>>

\* lines 247-249: the server context is entered (or raises), then
\* next_opcua_update = time.time()
MainEnterServer ==
    /\ pc = "enter_server"
    /\ \E ok \in BOOLEAN :
         IF ok
         THEN /\ next_opcua_update' = clock
              /\ pc' = "loop_top"
              /\ UNCHANGED exit_cause
         ELSE /\ pc' = "done"
              /\ exit_cause' = "server_error"
              /\ UNCHANGED next_opcua_update
    /\ UNCHANGED <<pid, ret, nCompute, nUpdate, cfg, plant, control_output,
                   new_temp, now, clock, ctrl, subscription, monitored, hist>>

\* lines 253-262: now = time.time(), plant.update, compute and the publish
\* test run without an await in between
Tick ==
    /\ pc = "loop_top"
    /\ hist.tick < MaxTicks
    /\ LET body       == LoopBody(plant, pid, control_output, DT_SIM)
           publishing == ShouldPublish(clock, next_opcua_update)
       IN  /\ now' = clock
           /\ plant' = body.plant
           /\ new_temp' = body.new_temp
           /\ pid' = body.c.pid
           /\ ret' = ComputeReturn(body.c, ret.op # "compute" /\ ret.first)
           /\ control_output' = IF body.c.raised THEN control_output ELSE body.c.out
           /\ pc' = IF body.c.raised THEN "finally"
                    ELSE IF publishing THEN "write_temp" ELSE "sleep"
           /\ exit_cause' = IF body.c.raised THEN "compute_error" ELSE exit_cause
           /\ hist' = [hist EXCEPT
                         !.tick = hist.tick + 1,
                         !.u = body.u,
                         !.temp = body.plant.temp,
                         !.measured = body.measured,
                         !.setpoint = pid.setpoint,
                         !.out = body.c.out,
                         !.prev_out = hist.out,
                         !.deadline = next_opcua_update,
                         !.publishing = publishing,
                         !.writes = 0,
                         !.alarm = FALSE,
                         !.pub_now = IF publishing THEN clock ELSE hist.pub_now,
                         !.prev_pub_now = IF publishing THEN hist.pub_now
                                          ELSE hist.prev_pub_now]
    /\ nCompute' = nCompute + 1
    /\ UNCHANGED <<nUpdate, cfg, next_opcua_update, clock, ctrl, subscription,
                   monitored>>

\* line 263: await ctrl["temp"].write_value(new_temp); an exception leaves the
\* while loop through the finally clause (there is no except clause)
WriteTemp ==
    /\ pc = "write_temp"
    /\ \E ok \in BOOLEAN, d \in PublishDelays :
         /\ clock' = RAdd(clock, d)
         /\ IF ok
            THEN /\ ctrl' = [ctrl EXCEPT !.temp = new_temp]
                 /\ pc' = "write_output"
                 /\ UNCHANGED exit_cause
            ELSE /\ pc' = "finally"
                 /\ exit_cause' = "publish_failed"
                 /\ UNCHANGED ctrl
    /\ hist' = [hist EXCEPT !.writes = hist.writes + 1]
    /\ UNCHANGED <<pid, ret, nCompute, nUpdate, cfg, plant, control_output,
                   new_temp, now, next_opcua_update, subscription, monitored>>

\* line 264: await ctrl["output"].write_value(control_output)
WriteOutput ==
    /\ pc = "write_output"
    /\ \E ok \in BOOLEAN :
         IF ok
         THEN /\ ctrl' = [ctrl EXCEPT !.output = control_output]
              /\ pc' = "write_last_update"
              /\ UNCHANGED exit_cause
         ELSE /\ pc' = "finally"
              /\ exit_cause' = "publish_failed"
              /\ UNCHANGED ctrl
    /\ UNCHANGED <<pid, ret, nCompute, nUpdate, cfg, plant, control_output,
                   new_temp, now, next_opcua_update, clock, subscription,
                   monitored, hist>>

\* lines 265-271: await ctrl["last_update"].write_value(datetime.now()); when it
\* returns the over-temperature test runs at once: trigger() is called, or the
\* deadline is set
WriteLastUpdate ==
    /\ pc = "write_last_update"
    /\ \E ok \in BOOLEAN :
         IF ok
         THEN /\ ctrl' = [ctrl EXCEPT !.last_update = clock]
              /\ IF OverTemp(new_temp, pid.setpoint)
                 THEN /\ pc' = "trigger"
                      /\ hist' = [hist EXCEPT !.alarm = TRUE,
                                              !.alarms = hist.alarms + 1]
                      /\ UNCHANGED next_opcua_update
                 ELSE /\ pc' = "sleep"
                      /\ next_opcua_update' =
                             NextDeadline(now, cfg.UPDATE_INTERVAL)
                      /\ UNCHANGED hist
              /\ UNCHANGED exit_cause
         ELSE /\ pc' = "finally"
              /\ exit_cause' = "publish_failed"
              /\ UNCHANGED <<ctrl, hist, next_opcua_update>>
    /\ UNCHANGED <<pid, ret, nCompute, nUpdate, cfg, plant, control_output,
                   new_temp, now, clock, subscription, monitored>>

\* lines 268-271: await ctrl["overtemp_alarm"].trigger(), then the deadline
Trigger ==
    /\ pc = "trigger"
    /\ \E ok \in BOOLEAN :
         IF ok
         THEN /\ next_opcua_update' = NextDeadline(now, cfg.UPDATE_INTERVAL)
              /\ pc' = "sleep"
              /\ UNCHANGED exit_cause
         ELSE /\ pc' = "finally"
              /\ exit_cause' = "alarm_failed"
              /\ UNCHANGED next_opcua_update
    /\ UNCHANGED <<pid, ret, nCompute, nUpdate, cfg, plant, control_output,
                   new_temp, now, clock, ctrl, subscription, monitored, hist>>

\* line 273: await asyncio.sleep(DT_SIM)
Sleep ==
    /\ pc = "sleep"
    /\ \E d \in SleepDelays : clock' = RAdd(clock, d)
    /\ pc' = "loop_top"
    /\ UNCHANGED <<pid, ret, nCompute, nUpdate, cfg, plant, control_output,
                   new_temp, now, next_opcua_update, ctrl, subscription,
                   monitored, exit_cause, hist>>

\* shutdown: the task is cancelled while suspended in an await of the loop
Cancel ==
    /\ pc \in LoopAwaits
    /\ pc' = "finally"
    /\ exit_cause' = "cancelled"
    /\ UNCHANGED <<pid, ret, nCompute, nUpdate, cfg, plant, control_output,
                   new_temp, now, next_opcua_update, clock, ctrl, subscription,
                   monitored, hist>>

\* lines 275-277: finally: await subscription.delete()
Finally ==
    /\ pc = "finally"
    /\ subscription' = "deleted"
    /\ pc' = "done"
    /\ UNCHANGED <<pid, ret, nCompute, nUpdate, cfg, plant, control_output,
                   new_temp, now, next_opcua_update, clock, ctrl, monitored,
                   exit_cause, hist>>

\* a client writes a monitored node and the subscription calls the handler;
\* callbacks run on the event loop, so only while main() is suspended
LoopEvent ==
    /\ pc \in LoopAwaits
    /\ subscription = "active"
    /\ nUpdate < MaxEvents
    /\ \E node \in monitored :
         \E val \in NodeVals(node) :
             /\ pid' = DatachangeNotification(pid, node, val)
             /\ ctrl' = [ctrl EXCEPT ![node] = val]
             /\ ret' = EventReturn(node, val, ret.op # "compute" /\ ret.first)
    /\ nUpdate' = nUpdate + 1
    /\ UNCHANGED <<nCompute, pc, cfg, plant, control_output, new_temp, now,
                   next_opcua_update, clock, subscription, monitored,
                   exit_cause, hist>>

Next ==
    \/ MainStartup
    \/ MainSubscribe
    \/ MainEnterServer
    \/ Tick
    \/ WriteTemp
    \/ WriteOutput
    \/ WriteLastUpdate
    \/ Trigger
    \/ Sleep
    \/ Cancel
    \/ Finally
    \/ LoopEvent

Spec == Init /\ [][Next]_vars

-----------------------------------------------------------------------------
(* Claims about the controller object, checked under SpecPID *)

\* C1: every value returned by compute lies within [output_min, output_max]
\* for the limits stored at the moment of the call (compute does not change
\* them, so they are the limits of the state right after the call).
C1_OutputWithinLimits ==
    (ret.op = "compute" /\ ~ret.raised) =>
        /\ RLe(pid.output_min, ret.out)
        /\ RLe(ret.out, pid.output_max)

\* C2: right after a compute call made with the integral path enabled, the
\* absolute value of the accumulator does not exceed the stored windup_limit.
C2_IntegralWithinWindup ==
    (ret.op = "compute" /\ pid.integ_enabled) =>
        RLe(RAbs(pid.integral), pid.windup_limit)

\* C3: reset() clears the accumulator and the last-error memory that compute
\* reads, and leaves the ten configuration attributes unchanged.
C3_ResetClearsMemory ==
    [][ ret'.op = "reset" =>
          /\ pid'.integral = R(0)
          /\ pid'.last_error = None
          /\ \A f \in ParamFields : pid'[f] = pid[f] ]_vars

\* C4: the first compute call after construction or after reset() contributes
\* a derivative term of exactly 0.
C4_FirstComputeNoDerivative ==
    (ret.op = "compute" /\ ret.first /\ ~ret.raised) => ret.D = R(0)

\* C5: a compute call made while integ_enabled is false leaves the
\* accumulator unchanged and contributes I = 0, and switching integ_enabled
\* does not touch the accumulator (re-enabling resumes from the retained value).
C5_DisabledIntegralFrozen ==
    [][ /\ (ret'.op = "compute" /\ ~pid.integ_enabled) =>
              (pid'.integral = pid.integral /\ ret'.I = R(0))
        /\ (pid'.integ_enabled # pid.integ_enabled) =>
              pid'.integral = pid.integral ]_vars

\* C5 witness: a second compute ran with the integral path disabled while the
\* accumulator held a non-zero value
C5_Witness ==
    /\ ret.op = "compute"
    /\ nCompute >= 2
    /\ ~pid.integ_enabled
    /\ pid.integral # R(0)

-----------------------------------------------------------------------------
(* Claims about the control loop, checked under Spec *)

\* C6: the over-temperature alarm is level-triggered at the publish cadence:
\* when an iteration's publish writes are done, trigger() is called if and
\* only if new_temp > setpoint + 5 (strictly), whatever happened in earlier
\* iterations; trigger() is called nowhere else, so never in an iteration that
\* does not publish, and once per qualifying publish.
C6_AlarmLevelTriggered ==
    [][ /\ (pc = "write_last_update" /\ pc' \in {"trigger", "sleep"}) =>
              ((pc' = "trigger") <=> RLt(RAdd(pid.setpoint, R(5)), new_temp))
        /\ (pc' = "trigger" /\ pc # "trigger") =>
              (hist'.alarm /\ hist'.alarms = hist.alarms + 1)
        /\ (hist'.alarms # hist.alarms) =>
              /\ pc = "write_last_update" /\ pc' = "trigger"
              /\ hist.publishing /\ ~hist.alarm ]_vars

\* C6 witness: trigger() was called in two publishing iterations
C6_Witness ==
    /\ pc = "trigger"
    /\ hist.alarms >= 2
    /\ hist.publishing

\* C7: one-tick actuation delay: the input of plant.update in iteration n is
\* 0 for n = 1 and the value compute returned in iteration n-1 otherwise; the
\* measurement compute gets is what plant.update of the same iteration
\* returned; control_output is what compute returned.
C7_OneTickDelay ==
    /\ (pc \in {"subscribe", "enter_server", "loop_top"} /\ hist.tick = 0) =>
           control_output = R(0)
    /\ hist.tick = 1 => hist.u = R(0)
    /\ hist.tick >= 2 => hist.u = hist.prev_out
    /\ hist.tick >= 1 =>
           /\ hist.measured = hist.temp
           /\ hist.temp = plant.temp
           /\ new_temp = hist.temp
           /\ control_output = hist.out

\* C7 witness: a later iteration whose plant input (the previous output)
\* differs from the output it computed
C7_Witness ==
    /\ hist.tick >= 2
    /\ hist.u # R(0)
    /\ hist.out # hist.u

\* C8: an iteration publishes iff its start time now >= the deadline; the
\* first iteration publishes; a publish is entered at most once per
\* iteration; when a publishing iteration reaches its sleep the deadline is
\* now + UPDATE_INTERVAL, and a non-publishing iteration leaves the deadline
\* alone; the start times of two consecutive publishing iterations differ by
\* at least UPDATE_INTERVAL.
C8_PublishDeadline ==
    /\ hist.tick >= 1 => (hist.publishing <=> RLe(hist.deadline, now))
    /\ hist.tick = 1 => hist.publishing
    /\ hist.writes <= 1
    /\ (hist.writes = 1) => hist.publishing
    /\ (hist.tick >= 1 /\ pc = "sleep" /\ hist.publishing) =>
           next_opcua_update = RAdd(now, cfg.UPDATE_INTERVAL)
    /\ (hist.tick >= 1 /\ ~hist.publishing) => next_opcua_update = hist.deadline
    /\ (hist.prev_pub_now # None) =>
           RLe(cfg.UPDATE_INTERVAL, RSub(hist.pub_now, hist.prev_pub_now))

\* C8 witness: a publish ran long, the next publish came more than one
\* interval later, and the iteration after it does not publish
C8_Witness ==
    /\ hist.tick = 3
    /\ ~hist.publishing
    /\ hist.prev_pub_now # None
    /\ RLt(cfg.UPDATE_INTERVAL, RSub(hist.pub_now, hist.prev_pub_now))

\* C9: a failed publish write or alarm trigger never terminates the loop.
C9_DeliveryFailureNonFatal ==
    ~(pc \in {"finally", "done"} /\ exit_cause \in {"publish_failed", "alarm_failed"})

\* a value outside the range the controller documents for the node: a
\* negative windup limit, or an output limit that crosses the other one
OutOfRange(p, node, val) ==
    \/ node = "windup" /\ RLt(val, R(0))
    \/ node = "output_min" /\ RLt(p.output_max, val)
    \/ node = "output_max" /\ RLt(val, p.output_min)

\* C10: a parameter event carrying an out-of-range value is dropped (the
\* controller keeps its last-good values), and no compute call fails.
C10_InvalidUpdateDropped ==
    [][ /\ (nUpdate' = nUpdate + 1 /\ OutOfRange(pid, ret'.node[1], ret'.val[1])) =>
              pid' = pid
        /\ exit_cause' # "compute_error" ]_vars

\* C11: a parameter-channel event (node, val) sets exactly the controller
\* attribute the handler pairs with the node (windup -> windup_limit, the
\* other nine by their own name) and leaves every other attribute, the
\* accumulator, the last-error memory and the plant unchanged; called with a
\* node it does not compare with, the handler changes nothing.
C11_EventFrame ==
    [][ /\ (nUpdate' = nUpdate + 1) =>
              LET node  == ret'.node[1]
                  field == IF node = "windup" THEN "windup_limit" ELSE node
              IN  /\ pid'[field] = ret'.val[1]
                  /\ \A f \in (DOMAIN pid) \ {field} : pid'[f] = pid[f]
                  /\ plant' = plant
        /\ (pc \in LoopAwaits) =>
              \A node \in UnmatchedNodes, val \in NumVals :
                  DatachangeNotification(pid, node, val) = pid ]_vars

\* C11 witness: an event arrived while the accumulator and the last-error
\* memory held values and the plant had moved away from its initial state
C11_Witness ==
    /\ ret.op = "datachange"
    /\ pid.integral # R(0)
    /\ pid.last_error # None
    /\ plant # SelectPlant(cfg)

\* C12: handler calls and the simulate-and-compute step never interleave: an
\* event is applied only while main() is suspended in a publish write, the
\* alarm trigger or the sleep, and main() does not move in that step; a
\* compute call changes no parameter, and its terms and result are those of
\* compute on the controller as it stood when the step began, every event
\* applied before it included.
C12_NoInterleaving ==
    [][ /\ (nUpdate' # nUpdate) =>
              /\ pc \in {"write_temp", "write_output", "write_last_update",
                         "trigger", "sleep"}
              /\ pc' = pc
              /\ nCompute' = nCompute
              /\ plant' = plant
              /\ control_output' = control_output
        /\ (nCompute' # nCompute) =>
              /\ nUpdate' = nUpdate
              /\ \A f \in ParamFields : pid'[f] = pid[f]
              /\ LET c == Compute(pid, new_temp', DT_SIM)
                 IN  /\ pid' = c.pid
                     /\ ret'.error = c.error
                     /\ ret'.P = c.P
                     /\ ret'.I = c.I
                     /\ ret'.D = c.D
                     /\ ret'.out = c.out ]_vars

\* C12 witness: a setpoint event was applied at an await and the compute call
\* of the following iteration took its error from the new setpoint
C12_Witness ==
    /\ ret.op = "compute"
    /\ hist.tick >= 2
    /\ nUpdate = 1
    /\ pid.setpoint = R(2)
    /\ ret.error = RSub(R(2), new_temp)

-----------------------------------------------------------------------------
(* Claims about the tuning functions, checked under SpecTune *)

\* C13: a tuning call ends with the validation error whenever any single
\* gain or time constant of its plant is <= 0: K or tau for the single-lag
\* function; K_h, K_p, tau_h or tau_p for the two-stage function.
C13_AnyNonPositiveRejected ==
    /\ (ret.op = "autotune_pi_from_plant"
            /\ (RLe(plant.K, R(0)) \/ RLe(plant.tau, R(0)))) => ret.raised
    /\ (ret.op = "autotune_pid_from_two_pt1"
            /\ (\/ RLe(plant.K_h, R(0)) \/ RLe(plant.K_p, R(0))
                \/ RLe(plant.tau_h, R(0)) \/ RLe(plant.tau_p, R(0)))) => ret.raised

\* C19: for a single-lag plant with K > 0 and tau > 0 and an aggressiveness
\* a > 0, autotune_pi_from_plant returns without error the gains
\* kp = tau/(K*lam), ki = 1/lam, kd = 0 with lam = tau*a (stated without
\* division: kp*K*lam = tau and ki*lam = 1); K = 2, tau = 10, a = 1 gives
\* kp = 1/2, ki = 1/10, kd = 0.
C19_PiGains ==
    (ret.op = "autotune_pi_from_plant"
        /\ RLt(R(0), plant.K) /\ RLt(R(0), plant.tau)
        /\ RLt(R(0), ret.aggressiveness)) =>
        LET lam == RMul(plant.tau, ret.aggressiveness)
        IN  /\ ~ret.raised
            /\ RMul(ret.kp, RMul(plant.K, lam)) = plant.tau
            /\ RMul(ret.ki, lam) = R(1)
            /\ ret.kd = R(0)
            /\ (plant.K = R(2) /\ plant.tau = R(10) /\ ret.aggressiveness = R(1)) =>
                   (ret.kp = Q(1, 2) /\ ret.ki = Q(1, 10) /\ ret.kd = R(0))

\* C19 witness: the call of the example, and it returned kp = 1/2
C19_Witness ==
    /\ ret.op = "autotune_pi_from_plant"
    /\ plant.K = R(2)
    /\ plant.tau = R(10)
    /\ ret.aggressiveness = R(1)
    /\ ~ret.raised
    /\ ret.kp = Q(1, 2)

\* C20: for a two-stage plant with K = K_h*K_p > 0, tau_h > 0, tau_p > 0 and
\* an aggressiveness a > 0, autotune_pid_from_two_pt1 returns without error
\* kp = (tau_h+tau_p)/(K*lam), ki = 1/lam, kd = tau_h*tau_p/(tau_h+tau_p)
\* with lam = a*(tau_h+tau_p) (stated without division).
C20_PidGains ==
    (ret.op = "autotune_pid_from_two_pt1"
        /\ RLt(R(0), RMul(plant.K_h, plant.K_p))
        /\ RLt(R(0), plant.tau_h) /\ RLt(R(0), plant.tau_p)
        /\ RLt(R(0), ret.aggressiveness)) =>
        LET K   == RMul(plant.K_h, plant.K_p)
            sum == RAdd(plant.tau_h, plant.tau_p)
            lam == RMul(ret.aggressiveness, sum)
        IN  /\ ~ret.raised
            /\ RMul(ret.kp, RMul(K, lam)) = sum
            /\ RMul(ret.ki, lam) = R(1)
            /\ RMul(ret.kd, sum) = RMul(plant.tau_h, plant.tau_p)

\* C20 witness: a call with two different time constants, a gain product
\* other than 1 and an aggressiveness other than 1 returned gains
C20_Witness ==
    /\ ret.op = "autotune_pid_from_two_pt1"
    /\ ~ret.raised
    /\ plant.tau_h = R(1)
    /\ plant.tau_p = R(10)
    /\ plant.K_h = R(100)
    /\ plant.K_p = Q(1, 2)
    /\ ret.aggressiveness = Q(1, 2)
    /\ ret.kd = Q(10, 11)

-----------------------------------------------------------------------------
(* Claims about startup and shutdown of main(), checked under Spec *)

\* C14: when a gain or a time constant configured for the selected plant
\* variant is <= 0 (PLANT_K, PLANT_TAU for pt1; PLANT_K_H, PLANT_K_P,
\* PLANT_TAU_H, PLANT_TAU_P for two_pt1), main() ends at startup with the tuning
\* error and the loop never starts: no plant.update and no compute is executed.
C14_InvalidPlantNeverRuns ==
    LET invalid ==
            IF cfg.PLANT_TYPE = "two_pt1"
            THEN \/ RLe(cfg.PLANT_K_H, R(0)) \/ RLe(cfg.PLANT_K_P, R(0))
                 \/ RLe(cfg.PLANT_TAU_H, R(0)) \/ RLe(cfg.PLANT_TAU_P, R(0))
            ELSE RLe(cfg.PLANT_K, R(0)) \/ RLe(cfg.PLANT_TAU, R(0))
    IN  invalid =>
            /\ pc \in {"start", "done"}
            /\ pc = "done" => exit_cause = "tuning_error"
            /\ nCompute = 0
            /\ hist.tick = 0

-----------------------------------------------------------------------------
(* Claims about the plant objects, checked under SpecPlant *)

\* C15: an update call of a plant (generic lag, ambient-referenced, two-stage)
\* made with dt <= 0 fails, and the plant state is not advanced by it.  (The
\* claim says the same of compute; compute calls with dt <= 0 are the
\* PidCompute steps of SpecPID, where dt = -1 advances the accumulator and the
\* last error without an error.)
C15_NonPositiveDtRejected ==
    [][ (nUpdate' = nUpdate + 1 /\ RLe(ret'.dt, R(0))) =>
            (ret'.raised /\ plant' = plant) ]_vars

-----------------------------------------------------------------------------
(* Claims about the subscription and the gains in main(), checked under Spec *)

\* C16: once server.create_subscription has returned, every way main() ends
\* passes through subscription.delete(): when main() is done the
\* subscription is not left active, whatever ended it (a node that could not
\* be subscribed, the server context failing to start, an exception in the
\* loop, cancellation).
C16_SubscriptionReleased ==
    (pc = "done") => (subscription # "active")

\* C17: tuning runs once, in the startup step, before any iteration of the
\* loop, and startup is never entered again; from then on kp, ki and kd of
\* the controller change only in a step that is a parameter-channel event for
\* that gain, to the value the event carries: neither the loop nor a repeated
\* tuning changes them.
C17_TunedOnce ==
    [][ /\ (pc = "start") => (nCompute = 0 /\ hist.tick = 0)
        /\ (pc # "start") =>
              /\ pc' # "start"
              /\ \A g \in {"kp", "ki", "kd"} :
                     (pid'[g] # pid[g]) =>
                         /\ nUpdate' = nUpdate + 1
                         /\ ret'.node = <<g>>
                         /\ pid'[g] = ret'.val[1] ]_vars

\* C17 witness: kp was changed by an event and the third iteration computed
\* with the value of the event
C17_Witness ==
    /\ ret.op = "compute"
    /\ hist.tick >= 3
    /\ nUpdate = 1
    /\ pid.kp = R(2)
    /\ pid.kp # Autotune(SelectPlant(cfg)).kp
    /\ ret.P = RMul(R(2), ret.error)

\* C18: when compute is called for the first time, kp, ki and kd of the
\* controller are the triple the tuning function of the selected variant
\* returned (autotune_pi_from_plant for pt1, autotune_pid_from_two_pt1 for
\* two_pt1), and setpoint, enable flags, windup limit and output limits are
\* the values of their nodes as read at startup; that first call computes
\* with them.
C18_InitialController ==
    LET t == IF cfg.PLANT_TYPE = "two_pt1"
             THEN AutotunePidFromTwoPt1(SelectPlant(cfg), R(1))
             ELSE AutotunePiFromPlant(SelectPlant(cfg), R(1))
    IN  /\ (pc = "loop_top" /\ hist.tick = 0) =>
               /\ pid.kp = t.kp /\ pid.ki = t.ki /\ pid.kd = t.kd
               /\ nUpdate = 0
               /\ pid.setpoint = ctrl.setpoint
               /\ pid.prop_enabled = ctrl.prop_enabled
               /\ pid.integ_enabled = ctrl.integ_enabled
               /\ pid.deriv_enabled = ctrl.deriv_enabled
               /\ pid.windup_limit = ctrl.windup
               /\ pid.output_min = ctrl.output_min
               /\ pid.output_max = ctrl.output_max
               /\ ctrl.setpoint = CreateTemperatureController.setpoint
               /\ ctrl.windup = CreateTemperatureController.windup
               /\ ctrl.output_min = CreateTemperatureController.output_min
               /\ ctrl.output_max = CreateTemperatureController.output_max
        /\ (hist.tick = 1 /\ ret.op = "compute") =>
               /\ ret.error = RSub(CreateTemperatureController.setpoint, hist.measured)
               /\ ret.P = RMul(t.kp, ret.error)
               /\ ret.I = RMul(t.ki, pid.integral)
               /\ ret.D = R(0)

\* C18 witness: the first compute call of a two-stage configuration ran, with
\* a tuned derivative gain other than the node's initial 0.0
C18_Witness ==
    /\ hist.tick = 1
    /\ ret.op = "compute"
    /\ cfg.PLANT_TYPE = "two_pt1"
    /\ pid.kd # CreateTemperatureController.kd
    /\ pid.kd = Q(1, 15)
    /\ pid.deriv_enabled

-----------------------------------------------------------------------------
(* Numeric examples of the tuning functions, checked under SpecTune *)

\* C21 as stated: autotune_pid_from_two_pt1 on K_h = 100, K_p = 0.5,
\* tau_h = 1, tau_p = 10 with aggressiveness 1 returns kp = 0.01818,
\* ki = 0.0909 and kd = 0.909, each to the digits given (half a unit of the
\* last digit).
C21_ExampleAsStated ==
    (ret.op = "autotune_pid_from_two_pt1"
        /\ plant.K_h = R(100) /\ plant.K_p = Q(1, 2)
        /\ plant.tau_h = R(1) /\ plant.tau_p = R(10)
        /\ ret.aggressiveness = R(1)) =>
        /\ ~ret.raised
        /\ RLe(Q(18175, 1000000), ret.kp) /\ RLe(ret.kp, Q(18185, 1000000))
        /\ RLe(Q(9085, 100000), ret.ki) /\ RLe(ret.ki, Q(9095, 100000))
        /\ RLe(Q(9085, 10000), ret.kd) /\ RLe(ret.kd, Q(9095, 10000))

\* C21 amended: the same call uses lam = 11 and returns kp = 1/50 = 0.02
\* (11/(50*11), not 1/55), ki = 1/11 (0.0909) and kd = 10/11 (0.909).
C21_TwoStageExample ==
    (ret.op = "autotune_pid_from_two_pt1"
        /\ plant.K_h = R(100) /\ plant.K_p = Q(1, 2)
        /\ plant.tau_h = R(1) /\ plant.tau_p = R(10)
        /\ ret.aggressiveness = R(1)) =>
        /\ ~ret.raised
        /\ ret.kp = Q(1, 50)
        /\ ret.ki = Q(1, 11)
        /\ RMul(ret.ki, R(11)) = R(1)
        /\ ret.kd = Q(10, 11)

\* C21 witness: the call of the example returned gains
C21_Witness ==
    /\ ret.op = "autotune_pid_from_two_pt1"
    /\ plant.K_h = R(100)
    /\ plant.K_p = Q(1, 2)
    /\ plant.tau_h = R(1)
    /\ plant.tau_p = R(10)
    /\ ret.aggressiveness = R(1)
    /\ ~ret.raised
    /\ ret.ki = Q(1, 11)

-----------------------------------------------------------------------------
(* Claims about the plant classes, checked under SpecPlant *)

\* the state the forward-Euler rule x + dt/tau*(-x + K*u) gives when it is
\* applied once per call of calls, in order, starting from x0; written over
\* the common denominator tau: ((tau - dt)*x + dt*K*u) / tau
RECURSIVE EulerFold(_, _, _, _)
EulerFold(x0, K, tau, calls) ==
    IF calls = <<>> THEN x0
    ELSE LET n  == Len(calls)
             x  == EulerFold(x0, K, tau, SubSeq(calls, 1, n - 1))
             u  == calls[n][1]
             dt == calls[n][2]
         IN  RDiv(RAdd(RMul(RSub(tau, dt), x), RMul(dt, RMul(K, u))), tau)

\* C22: FirstOrderPlant.update(u, dt) replaces x by x + dt/tau*(-x + K*u),
\* returns the new x and leaves K and tau as constructed; after n calls x is
\* the n-fold application of that step to x0; with K = 1, tau = 10, x0 = 0,
\* update(u = 1, dt = 1) gives x = 0.1.
C22_ForwardEulerStep ==
    (plant.kind = "first_order") =>
        /\ plant.x = EulerFold(hist.initial.x, hist.initial.K, hist.initial.tau,
                               hist.calls)
        /\ plant.K = hist.initial.K
        /\ plant.tau = hist.initial.tau
        /\ Len(hist.calls) = nUpdate
        /\ (nUpdate >= 1) => (ret.value = plant.x)
        /\ (hist.initial = FirstOrderPlant(R(1), R(10), R(0))
               /\ hist.calls = << <<R(1), R(1)>> >>) => plant.x = Q(1, 10)

\* C22 witness: the plant of the example after two calls update(1, 1)
C22_Witness ==
    /\ plant.kind = "first_order"
    /\ hist.initial = FirstOrderPlant(R(1), R(10), R(0))
    /\ hist.calls = << <<R(1), R(1)>>, <<R(1), R(1)>> >>
    /\ plant.x = Q(19, 100)
    /\ ret.value = Q(19, 100)

C24_HeaterFirst ==
    [][ (plant.kind = "two_pt1" /\ nUpdate' = nUpdate + 1) =>
            LET u  == ret'.u
                dt == ret'.dt
            IN  /\ RMul(RSub(plant'.heater, plant.heater), plant.tau_h) =
                       RMul(dt, RSub(RMul(plant.K_h, u), plant.heater))
                /\ RMul(RSub(plant'.temp, plant.temp), plant.tau_p) =
                       RMul(dt, RSub(RMul(plant.K_p, plant'.heater),
                                     RSub(plant.temp, plant.ambient)))
                /\ ret'.value = plant'.temp ]_vars

\* C24 witness: a first step that moved the heater output away from 0 and,
\* through it, the temperature of a plant resting at ambient
C24_Witness ==
    /\ plant.kind = "two_pt1"
    /\ nUpdate = 1
    /\ hist.initial.temp = hist.initial.ambient
    /\ plant.heater # R(0)
    /\ plant.temp # hist.initial.temp
    /\ ret.value = plant.temp

-----------------------------------------------------------------------------
(* Further claims about the controller object, checked under SpecPID *)

\* C25: set_windup_limit(l) stores |l| as windup_limit and set_output_limits(a, b)
\* stores output_min = a and output_max = b; each leaves every other
\* attribute, the accumulator and the last-error memory unchanged; and the
\* next compute call uses the stored values: it clamps the accumulator to
\* +-windup_limit and its result to [output_min, output_max] as they stand
\* when it is called.
C25_MutatorFrame ==
    [][ /\ (ret'.op = "set_windup_limit" /\ nUpdate' = nUpdate + 1) =>
              /\ pid'.windup_limit = RAbs(ret'.val[1])
              /\ \A f \in (DOMAIN pid) \ {"windup_limit"} : pid'[f] = pid[f]
        /\ (ret'.op = "set_output_limits" /\ nUpdate' = nUpdate + 1) =>
              /\ pid'.output_min = ret'.val[1]
              /\ pid'.output_max = ret'.val[2]
              /\ \A f \in (DOMAIN pid) \ {"output_min", "output_max"} :
                     pid'[f] = pid[f]
        /\ (nCompute' = nCompute + 1 /\ ~ret'.raised) =>
              /\ ret'.out = RMax(pid.output_min,
                                 RMin(pid.output_max,
                                      RAdd(RAdd(ret'.P, ret'.I), ret'.D)))
              /\ pid.integ_enabled =>
                     \E dt \in Dts :
                         pid'.integral =
                             RMax(RMin(RAdd(pid.integral, RMul(ret'.error, dt)),
                                       pid.windup_limit),
                                  RNeg(pid.windup_limit)) ]_vars

\* C25 witness: set_windup_limit(-1) was called on a controller whose
\* accumulator and last-error memory held values, and stored 1
C25_Witness ==
    /\ ret.op = "set_windup_limit"
    /\ ret.val = <<R(-1)>>
    /\ pid.windup_limit = R(1)
    /\ pid.integral # R(0)
    /\ pid.last_error # None

\* C27: every compute call that returns stores its error, setpoint - measured,
\* as last_error, with the derivative path enabled or not, and nothing but
\* compute writes last_error; the derivative term of a call is
\* kd*(error - last_error)/dt on the last_error it finds, so after
\* deriv_enabled is switched on between two calls the second call
\* differentiates against the error of the call just before it.
C27_LastErrorAlwaysStored ==
    [][ /\ (nCompute' = nCompute + 1 /\ ~ret'.raised) =>
              /\ \E m \in Measurements : ret'.error = RSub(pid.setpoint, m)
              /\ pid'.last_error = ret'.error
              /\ (pid.deriv_enabled /\ pid.last_error # None) =>
                     \E dt \in Dts \ {R(0)} :
                         RMul(ret'.D, dt) =
                             RMul(pid.kd, RSub(ret'.error, pid.last_error))
              /\ (~pid.deriv_enabled \/ pid.last_error = None) => ret'.D = R(0)
        /\ (nCompute' = nCompute) => pid'.last_error = pid.last_error ]_vars

\* C27 witness: on the controller built with the derivative path disabled and
\* kd = 0, kd was set, a first compute ran, deriv_enabled was switched on,
\* and the second compute returned a derivative term other than 0
C27_Witness ==
    /\ ret.op = "compute"
    /\ nCompute = 2
    /\ nUpdate = 2
    /\ pid.setpoint = R(0)
    /\ pid.kp = R(0)
    /\ pid.deriv_enabled
    /\ pid.kd = R(2)
    /\ ~ret.raised
    /\ ret.D # R(0)

-----------------------------------------------------------------------------
(* Further claims about main(), checked under Spec *)

\* C26: the dt passed to plant.update and to compute is the fast-tick period
\* of the startup configuration (DT_SIM of the environment): the first
\* iteration advances the constructed plant by one step of that length and
\* accumulates error * DT_SIM.
C26_ConfiguredTimeStep ==
    (hist.tick = 1) =>
        /\ plant = PlantUpdate(SelectPlant(cfg), R(0), cfg.DT_SIM)
        /\ (ret.op = "compute") =>
               pid.integral = RMul(ret.error, cfg.DT_SIM)


(* C28: in every reachable state of the running controller, also between
   compute calls, right after a smaller windup limit arrived through the
   parameter channel, and while the integral path is disabled, the
   accumulator satisfies |integral| <= |windup_limit|. *)
C28_AccumulatorWithinLimit ==
    (pid # None) => RLe(RAbs(pid.integral), RAbs(pid.windup_limit))


(* C29: within a publishing iteration the over-temperature test compares the
   setpoint that the iteration's compute call used, and the published
   temperature and control output are the pair produced by that iteration's
   plant.update and compute, also when a setpoint update arrives through the
   parameter channel while the publish writes are suspended. *)
C29_IterationSnapshot ==
    [][ (pc = "write_last_update" /\ pc' \in {"trigger", "sleep"}) =>
            /\ (pc' = "trigger") <=> OverTemp(hist.temp, hist.setpoint)
            /\ ctrl'.temp = hist.temp
            /\ ctrl'.output = hist.out ]_vars

====
